---- MODULE Spec2Model ----
(***************************************************************************)
(* Ingredient-to-product search of vibe-rsla: the name canonicalizer and   *)
(* synonym table of IngredientParserService and the search pipeline of     *)
(* ProductSearchService (searchProducts, searchDatabase,                   *)
(* searchExternalAPIs, searchOpenFoodFacts, calculateMatchScore,           *)
(* rankProducts).                                                          *)
(*                                                                         *)
(* Representation.  A JavaScript string is a sequence of one-character     *)
(* strings.  An optional value (undefined / SQL NULL) is a sequence of     *)
(* length 0 or 1.  Prices are integer cents.  A match score is an integer  *)
(* number of 1/ScoreOne units, so that 1.0, 0.8 and 0.6 * k / n are exact  *)
(* for every n that divides 6 * ScoreOne / 10.                             *)
(***************************************************************************)
EXTENDS Integers, Sequences, FiniteSets, TLC

(***************************************************************************)
(* Strings                                                                 *)
(***************************************************************************)
UpperCase ==
  <<"A","B","C","D","E","F","G","H","I","J","K","L","M",
    "N","O","P","Q","R","S","T","U","V","W","X","Y","Z">>

LowerCase ==
  <<"a","b","c","d","e","f","g","h","i","j","k","l","m",
    "n","o","p","q","r","s","t","u","v","w","x","y","z">>

Digits == {"0","1","2","3","4","5","6","7","8","9"}

Range(s) == { s[i] : i \in DOMAIN s }

Min(a, b) == IF a < b THEN a ELSE b

LowerOf ==
  [ c \in Range(UpperCase) |-> LowerCase[CHOOSE i \in DOMAIN UpperCase : UpperCase[i] = c] ]

\* String.prototype.toLowerCase on one character.
LowerChar(c) == IF c \in DOMAIN LowerOf THEN LowerOf[c] ELSE c

ToLowerCase(s) == [ i \in DOMAIN s |-> LowerChar(s[i]) ]

\* The regular-expression classes \s and \w on the characters of the model.
SpaceChars == {" ", "\t", "\n"}

WordChars == Range(UpperCase) \cup Range(LowerCase) \cup Digits \cup {"_"}

IsSpace(c) == c \in SpaceChars

IsWordChar(c) == c \in WordChars

\* String.prototype.trim: what lies between the first and the last character
\* that is not whitespace.
Trim(s) ==
  LET kept == { i \in DOMAIN s : ~IsSpace(s[i]) }
  IN  IF kept = {} THEN <<>>
      ELSE SubSeq(s, CHOOSE i \in kept : \A j \in kept : i <= j,
                     CHOOSE i \in kept : \A j \in kept : j <= i)

\* s.replace(/\s+/g, " "): every maximal run of whitespace becomes one space.
CollapseSpaces(s) ==
  LET first == SelectSeq([ i \in DOMAIN s |-> i ],
                         LAMBDA i : ~IsSpace(s[i]) \/ i = 1 \/ ~IsSpace(s[i - 1]))
  IN  [ k \in DOMAIN first |-> IF IsSpace(s[first[k]]) THEN " " ELSE s[first[k]] ]

\* s.replace(/[^\w\s]/g, ""): drops what is neither a word character nor whitespace.
StripSpecial(s) == SelectSeq(s, LAMBDA c : IsWordChar(c) \/ IsSpace(c))

\* IngredientParserService.normalizeIngredientName
normalizeIngredientName(name) ==
  StripSpecial(CollapseSpaces(Trim(ToLowerCase(name))))

\* String.prototype.includes
Includes(hay, needle) ==
  \E i \in 0..(Len(hay) - Len(needle)) : SubSeq(hay, i + 1, i + Len(needle)) = needle

\* String.prototype.split(" "): the pieces between single spaces, empty pieces kept.
RECURSIVE Split(_)
Split(s) ==
  IF \E i \in DOMAIN s : s[i] = " "
    THEN LET i == CHOOSE k \in DOMAIN s : s[k] = " " /\ \A j \in 1..(k - 1) : s[j] # " "
         IN  <<SubSeq(s, 1, i - 1)>> \o Split(SubSeq(s, i + 1, Len(s)))
    ELSE <<s>>

(***************************************************************************)
(* Synonym table                                                           *)
(***************************************************************************)
eggplant == <<"e","g","g","p","l","a","n","t">>
aubergine == <<"a","u","b","e","r","g","i","n","e">>
brinjal == <<"b","r","i","n","j","a","l">>
zucchini == <<"z","u","c","c","h","i","n","i">>
courgette == <<"c","o","u","r","g","e","t","t","e">>
bellPepper == <<"b","e","l","l"," ","p","e","p","p","e","r">>
capsicum == <<"c","a","p","s","i","c","u","m">>
sweetPepper == <<"s","w","e","e","t"," ","p","e","p","p","e","r">>
cilantro == <<"c","i","l","a","n","t","r","o">>
coriander == <<"c","o","r","i","a","n","d","e","r">>
freshCoriander == <<"f","r","e","s","h"," ">> \o coriander
scallion == <<"s","c","a","l","l","i","o","n">>
greenOnion == <<"g","r","e","e","n"," ","o","n","i","o","n">>
springOnion == <<"s","p","r","i","n","g"," ","o","n","i","o","n">>
arugula == <<"a","r","u","g","u","l","a">>
rocket == <<"r","o","c","k","e","t">>
rucola == <<"r","u","c","o","l","a">>
beetroot == <<"b","e","e","t","r","o","o","t">>
beet == <<"b","e","e","t">>

\* The keys and values of the `synonyms` record, in source order.
SynonymTable ==
  << <<eggplant,   <<aubergine, brinjal>> >>,
     <<zucchini,   <<courgette>> >>,
     <<bellPepper, <<capsicum, sweetPepper>> >>,
     <<cilantro,   <<coriander, freshCoriander>> >>,
     <<scallion,   <<greenOnion, springOnion>> >>,
     <<arugula,    <<rocket, rucola>> >>,
     <<beetroot,   <<beet>> >>,
     <<courgette,  <<zucchini>> >>,
     <<aubergine,  <<eggplant, brinjal>> >>,
     <<capsicum,   <<bellPepper, sweetPepper>> >>,
     <<coriander,  <<cilantro>> >>,
     <<rocket,     <<arugula, rucola>> >>,
     <<beet,       <<beetroot>> >> >>

\* IngredientParserService.getIngredientSynonyms
getIngredientSynonyms(name) ==
  LET normalizedName == normalizeIngredientName(name)
  IN  IF \E i \in DOMAIN SynonymTable : SynonymTable[i][1] = normalizedName
        THEN SynonymTable[CHOOSE i \in DOMAIN SynonymTable :
                            SynonymTable[i][1] = normalizedName][2]
        ELSE <<>>

(***************************************************************************)
(* Match score                                                             *)
(***************************************************************************)
\* The score 1.0 in score units; 0.8 and 0.6 are 8/10 and 6/10 of it.
ScoreOne == 10 * 420

ScoreContains == (8 * ScoreOne) \div 10

ScoreWords == (6 * ScoreOne) \div 10

\* The inclusion threshold and the tie band of rankProducts, both 0.1.
ScoreTenth == ScoreOne \div 10

\* ProductSearchService.calculateMatchScore
calculateMatchScore(productName, ingredientName) ==
  LET normalizedProduct == normalizeIngredientName(productName)
      normalizedIngredient == normalizeIngredientName(ingredientName)
      words == Split(normalizedProduct)
      ingredientWords == Split(normalizedIngredient)
      matchingWords ==
        SelectSeq(ingredientWords,
                  LAMBDA word : \E k \in DOMAIN words : Includes(words[k], word))
  IN  IF normalizedProduct = normalizedIngredient THEN ScoreOne
      ELSE IF Includes(normalizedProduct, normalizedIngredient) THEN ScoreContains
      ELSE IF Len(matchingWords) > 0
        THEN (ScoreWords * Len(matchingWords)) \div Len(ingredientWords)
      ELSE 0

(***************************************************************************)
(* Ranking                                                                 *)
(***************************************************************************)
\* An optional number is truthy in JavaScript when it is present and not 0.
Truthy(opt) == opt # <<>> /\ opt[1] # 0

Abs(n) == IF n < 0 THEN 0 - n ELSE n

\* The collation order of the characters that store names are made of.
Collation ==
  <<" ","0","1","2","3","4","5","6","7","8","9">> \o LowerCase

RankOf ==
  [ c \in Range(Collation) |-> CHOOSE i \in DOMAIN Collation : Collation[i] = c ]

CharRank(c) == IF LowerChar(c) \in DOMAIN RankOf THEN RankOf[LowerChar(c)] ELSE 0

\* String.prototype.localeCompare: -1, 0 or 1.  Letters compare without case
\* first; strings equal up to case put the lowercase letter first.
ComparePrimary(a, b) ==
  LET common == 1..Min(Len(a), Len(b))
      differ == { i \in common : CharRank(a[i]) # CharRank(b[i]) }
  IN  IF differ = {}
        THEN (IF Len(a) < Len(b) THEN 0 - 1 ELSE IF Len(a) > Len(b) THEN 1 ELSE 0)
        ELSE LET i == CHOOSE k \in differ : \A j \in differ : k <= j
             IN  IF CharRank(a[i]) < CharRank(b[i]) THEN 0 - 1 ELSE 1

CompareCase(a, b) ==
  LET differ == { i \in DOMAIN a : a[i] # b[i] }
  IN  IF differ = {} THEN 0
      ELSE LET i == CHOOSE k \in differ : \A j \in differ : k <= j
           IN  IF a[i] = LowerChar(a[i]) THEN 0 - 1 ELSE 1

localeCompare(a, b) ==
  IF a = b THEN 0
  ELSE IF ComparePrimary(a, b) # 0 THEN ComparePrimary(a, b)
  ELSE CompareCase(a, b)

\* The comparator handed to Array.prototype.sort by rankProducts.
Compare(a, b) ==
  IF Abs(a.matchScore - b.matchScore) > ScoreTenth
    THEN b.matchScore - a.matchScore
  ELSE IF Truthy(a.price) /\ Truthy(b.price)
    THEN a.price[1] - b.price[1]
  ELSE localeCompare(a.store, b.store)

Reverse(s) == [ i \in DOMAIN s |-> s[Len(s) + 1 - i] ]

\* Array.prototype.sort as Node.js runs it on an array shorter than 64
\* elements: the leading run is counted (and reversed when strictly
\* descending), then every later element is placed by binary insertion.
RECURSIVE RunLength(_, _, _, _)
RunLength(arr, isDescending, idx, runLength) ==
  IF idx > Len(arr) THEN runLength
  ELSE LET order == Compare(arr[idx], arr[idx - 1])
       IN  IF (isDescending /\ order >= 0) \/ (~isDescending /\ order < 0)
             THEN runLength
             ELSE RunLength(arr, isDescending, idx + 1, runLength + 1)

RECURSIVE BinarySearch(_, _, _, _)
BinarySearch(arr, pivot, left, right) ==
  IF left < right
    THEN LET mid == left + ((right - left) \div 2)
         IN  IF Compare(pivot, arr[mid + 1]) < 0
               THEN BinarySearch(arr, pivot, left, mid)
               ELSE BinarySearch(arr, pivot, mid + 1, right)
    ELSE left

RECURSIVE BinaryInsertionSort(_, _)
BinaryInsertionSort(arr, start) ==
  IF start >= Len(arr) THEN arr
  ELSE LET pivot == arr[start + 1]
           pos == BinarySearch(arr, pivot, 0, start)
       IN  BinaryInsertionSort(
             SubSeq(arr, 1, pos) \o <<pivot>> \o SubSeq(arr, pos + 1, start)
               \o SubSeq(arr, start + 2, Len(arr)),
             start + 1)

Sort(arr) ==
  IF Len(arr) < 2 THEN arr
  ELSE LET isDescending == Compare(arr[2], arr[1]) < 0
           run == RunLength(arr, isDescending, 3, 2)
           made == IF isDescending
                     THEN Reverse(SubSeq(arr, 1, run)) \o SubSeq(arr, run + 1, Len(arr))
                     ELSE arr
       IN  BinaryInsertionSort(made, run)

\* A variant of rankProducts that trusts the scores the sources attached.
rankProductsTrusting(products, ingredientName) ==
  Sort(SelectSeq(products, LAMBDA product : product.matchScore > ScoreTenth))

\* A variant of rankProducts without the threshold filter.
rankProductsUnfiltered(products, ingredientName) ==
  Sort([ i \in DOMAIN products |->
           [ products[i] EXCEPT
               !.matchScore = calculateMatchScore(products[i].name, ingredientName) ] ])

\* ProductSearchService.rankProducts: rescore, drop scores <= 0.1, sort.
rankProducts(products, ingredientName) ==
  LET rescored == [ i \in DOMAIN products |->
                      [ products[i] EXCEPT
                          !.matchScore = calculateMatchScore(products[i].name, ingredientName) ] ]
  IN  Sort(SelectSeq(rescored, LAMBDA product : product.matchScore > ScoreTenth))

\* Array.prototype.slice(0, end)
Slice(arr, end) ==
  LET final == IF end < 0 THEN (IF Len(arr) + end < 0 THEN 0 ELSE Len(arr) + end)
               ELSE IF end > Len(arr) THEN Len(arr) ELSE end
  IN  SubSeq(arr, 1, final)

(***************************************************************************)
(* Inputs of the model                                                     *)
(***************************************************************************)
\* Rows of the products table at most; the remote source's answer has at
\* most MaxRemote products (MaxChain in the specification of long answers).
MaxCatalog == 2

MaxRemote == 1

MaxChain == 3

Some(v) == <<v>>

None == <<>>

Eggplant == <<"E">> \o Tail(eggplant)

FreshAubergine == <<"F","r","e","s","h"," ","A">> \o Tail(aubergine)

\* A seven-word ingredient name and product names that hold 7, 6 and 5 of
\* its words without holding the name itself.
SevenWords == <<"a"," ","b"," ","c"," ","d"," ","e"," ","f"," ","g">>

HoldsSeven == <<"g"," ","f"," ","e"," ","d"," ","c"," ","b"," ","a">>

HoldsSix == <<"f"," ","e"," ","d"," ","c"," ","b"," ","a">>

HoldsFive == <<"e"," ","d"," ","c"," ","b"," ","a">>

Aldi == <<"A","l","d","i">>

Zed == <<"Z","e","d">>

OpenFoodFacts ==
  <<"O","p","e","n"," ","F","o","o","d"," ","F","a","c","t","s">>

\* The ingredient names a caller passes.
IngredientNames == { Eggplant, SevenWords, <<"!","?">> }

\* The characters and the greatest length of the short names that the
\* specification of names enumerates: a lowercase and an uppercase letter, a
\* space, a punctuation mark and the underscore.
MaxNameLen == 3

NameChars == {"a", "B", " ", "!", "_"}

ShortNames == UNION { [1..n -> NameChars] : n \in 0..MaxNameLen }

BellPepperInput ==
  <<" "," ","B","e","l","l"," "," "," ","P","e","p","p","e","r","!"," ">>

\* The keys and the values of the synonym table.
TableWords ==
  { SynonymTable[i][1] : i \in DOMAIN SynonymTable }
    \cup UNION { Range(SynonymTable[i][2]) : i \in DOMAIN SynonymTable }

NameInputs == ShortNames \cup {BellPepperInput} \cup TableWords

\* Names and product names for the specification of scores: the examples of
\* exact, substring, word and no match, and a name with punctuation between
\* its words.
Flour == <<"f","l","o","u","r">>

Sugar == <<"s","u","g","a","r">>

KingArthurFlour ==
  <<"K","i","n","g"," ","A","r","t","h","u","r"," ">>
    \o <<"A","l","l","-","P","u","r","p","o","s","e"," ","F","l","o","u","r">>

MilkChocolateBar ==
  <<"M","i","l","k"," ","C","h","o","c","o","l","a","t","e"," ","B","a","r">>

PunctuatedName == <<"a"," ","!"," ","b">>

PlainName == <<"a"," ","b">>

WithinWords == <<"x","a"," ","b","x">>

ScoreNames == { Flour, Sugar, Eggplant, SevenWords, PunctuatedName, PlainName }

ScoreProducts ==
  { [code |-> Some("s1"), product_name |-> Some(n), generic_name |-> None, brands |-> None,
     ageDays |-> 0] :
      n \in { KingArthurFlour, Sugar, MilkChocolateBar, Eggplant, HoldsFive,
              PlainName, WithinWords } }

\* The rows the products table (joined with stores) is drawn from: name,
\* brand and price as stored (NULL is None), the store's name, and the age of
\* lastUpdated in days at the time of the search.
ProductRows ==
  { [id |-> "p1", name |-> FreshAubergine, brand |-> None, price |-> Some(250),
     store |-> Aldi, ageDays |-> 0],
    [id |-> "p2", name |-> Eggplant, brand |-> Some(<<"A","c">>), price |-> Some(299),
     store |-> Zed, ageDays |-> 0],
    [id |-> "p3", name |-> Eggplant, brand |-> Some(<<"a","c">>), price |-> Some(499),
     store |-> Aldi, ageDays |-> 7],
    [id |-> "p4", name |-> Eggplant, brand |-> None, price |-> Some(0),
     store |-> Zed, ageDays |-> 0],
    [id |-> "p5", name |-> Eggplant, brand |-> None, price |-> Some(299),
     store |-> Aldi, ageDays |-> 0],
    [id |-> "p6", name |-> Eggplant, brand |-> None, price |-> None,
     store |-> Aldi, ageDays |-> 8] }

\* The products the remote source reports: code, product_name, generic_name
\* and brands, each of which the remote may leave out, and the age in days of
\* the remote record's last modification.
RemoteProducts ==
  { [code |-> None, product_name |-> None, generic_name |-> None, brands |-> None,
     ageDays |-> 0],
    [code |-> Some("r1"), product_name |-> Some(Eggplant), generic_name |-> None,
     brands |-> Some(<<"Z","z">>), ageDays |-> 0],
    [code |-> Some("r2"), product_name |-> Some(Eggplant), generic_name |-> None,
     brands |-> None, ageDays |-> 30] }

\* Remote products whose names hold 7, 6 and 5 of the words of SevenWords.
ChainProducts ==
  { [code |-> Some("r7"), product_name |-> None, generic_name |-> Some(HoldsSeven),
     brands |-> None, ageDays |-> 0],
    [code |-> Some("r6"), product_name |-> Some(HoldsSix), generic_name |-> None,
     brands |-> None, ageDays |-> 0],
    [code |-> Some("r5"), product_name |-> Some(HoldsFive), generic_name |-> None,
     brands |-> None, ageDays |-> 0] }

\* ProductSearchOptions as callers pass them.
NoOptions ==
  [minPrice |-> None, maxPrice |-> None, preferredBrands |-> <<>>, maxResults |-> None]

SearchOptions ==
  { NoOptions,
    [NoOptions EXCEPT !.maxPrice = Some(300)],
    [NoOptions EXCEPT !.maxPrice = Some(0)],
    [NoOptions EXCEPT !.minPrice = Some(299)],
    [NoOptions EXCEPT !.preferredBrands = << <<"A","c">> >>],
    [NoOptions EXCEPT !.maxResults = Some(1)],
    [NoOptions EXCEPT !.maxResults = Some(0)],
    [NoOptions EXCEPT !.maxResults = Some(0 - 1)] }

\* The sequences of length n of distinct elements of S.
Arrangements(S, n) ==
  { f \in [1..n -> S] : \A i, j \in 1..n : i # j => f[i] # f[j] }

(***************************************************************************)
(* State                                                                   *)
(***************************************************************************)
VARIABLES
  productsTable,   \* the rows of the products table
  whereChaining,   \* what a second .where() does to the first: "and" | "replace"
  dbAvailable,     \* whether the database answers the current search
  offAvailable,    \* whether Open Food Facts answers the current search
  pc,              \* where searchProducts stands
  ingredientName,  \* arguments of the current call
  options,
  normalizedName,  \* locals of the current call
  synonyms,
  dbResults,
  apiResults,
  queried,         \* the sources a request has been sent to in this call
  outcome,         \* what the call returned or threw
  igToken,         \* OCRService.INSTAGRAM_API_ACCESS_TOKEN is set
  igPc,            \* where extractRecipeFromInstagramUrl stands
  igFallback,      \* its argument useScrapingFallback
  igPost,          \* what the Instagram API holds for the post
  igPage,          \* what scraping finds on the post's page
  igTrace,         \* the calls made in this call and how they settled, in order
  igOutcome,       \* what the call returned or threw
  worker,          \* OCRService.worker
  isInitialized,   \* OCRService.isInitialized
  created,         \* calls of createWorker since the last termination that did not reject
  ocrPc,           \* where each caller of the OCR service stands
  ocrOp            \* the method each caller called

searchVars ==
  <<productsTable, whereChaining, dbAvailable, offAvailable, pc, ingredientName,
    options, normalizedName, synonyms, dbResults, apiResults, queried, outcome>>

instagramVars == <<igToken, igPc, igFallback, igPost, igPage, igTrace, igOutcome>>

workerVars == <<worker, isInitialized, created, ocrPc, ocrOp>>

ocrVars == <<instagramVars, workerVars>>

vars == <<searchVars, ocrVars>>

NoOutcome == [kind |-> "none", results |-> <<>>, degradedSources |-> {}]

(***************************************************************************)
(* OCRService: recipes from Instagram posts                                *)
(***************************************************************************)
\* A text is told by its length and by the recipe keywords its lowercase
\* form includes.  Confidences are in tenths.
RecipeKeywords == {"ingredient", "recipe", "cup", "tbsp", "tsp"}

\* A comment counts as a recipe when it is longer than this.
CommentMinLength == 50

ApiConfidence == 9

ScrapingConfidence == 8

\* Comments per post at most.
MaxComments == 2

\* The comments of a post: chatter, a long recipe, recipes of 51 and of
\* exactly 50 characters, and a long comment without keyword.
IgComments ==
  { [id |-> "c1", len |-> 20,  keywords |-> {}],
    [id |-> "c2", len |-> 120, keywords |-> {"recipe", "ingredient"}],
    [id |-> "c3", len |-> 51,  keywords |-> {"cup"}],
    [id |-> "c4", len |-> 50,  keywords |-> {"tsp"}],
    [id |-> "c5", len |-> 200, keywords |-> {}] }

\* The caption of a post: none, the empty text, or a text.
IgCaptions == { None, Some([len |-> 0]), Some([len |-> 40]) }

\* InstagramAPIResponse: caption and comments.data.
IgPosts ==
  { [caption |-> c, comments |-> d] :
      c \in IgCaptions,
      d \in UNION { Arrangements(IgComments, n) : n \in 0..MaxComments } }

\* What scraping extracts from the page: whether any text was found, and the
\* comment type that analyzeInstagramText gives for it.
IgPages ==
  { [found |-> FALSE, commentType |-> "unknown"] }
    \cup { [found |-> TRUE, commentType |-> t] :
             t \in {"pinned", "regular", "caption", "unknown"} }

NoPost == [caption |-> None, comments |-> <<>>]

NoPage == [found |-> FALSE, commentType |-> "unknown"]

NoIgOutcome == [kind |-> "none"]

IsRecipeComment(comment) ==
  comment.len > CommentMinLength /\ comment.keywords \cap RecipeKeywords # {}

\* recipeComments.reduce(...): the first of the longest comments.
BestComment(recipeComments) ==
  recipeComments[
    CHOOSE i \in DOMAIN recipeComments :
      /\ \A j \in DOMAIN recipeComments : recipeComments[j].len <= recipeComments[i].len
      /\ \A j \in 1..(i - 1) : recipeComments[j].len < recipeComments[i].len ]

\* OCRService.extractRecipeFromInstagramAPI on the answer of the API: the
\* pieces of extractedText and the commentType.
extractRecipeFromInstagramAPI(postData) ==
  LET hasCaption == postData.caption # None /\ postData.caption[1].len > 0
      recipeComments == SelectSeq(postData.comments, IsRecipeComment)
  IN  [text |-> (IF hasCaption THEN <<"caption">> ELSE <<>>)
                  \o (IF Len(recipeComments) > 0
                        THEN <<BestComment(recipeComments).id>> ELSE <<>>),
       confidence |-> ApiConfidence,
       commentType |-> IF Len(recipeComments) > 0 THEN "regular"
                       ELSE IF hasCaption THEN "caption"
                       ELSE "unknown"]

InstagramInit ==
  /\ igToken \in BOOLEAN
  /\ igPc = "idle"
  /\ igFallback = FALSE
  /\ igPost = NoPost
  /\ igPage = NoPage
  /\ igTrace = <<>>
  /\ igOutcome = NoIgOutcome

\* A variant that fetches the page first whenever the fallback is enabled.
extractRecipeFromInstagramUrlScrapingFirst(useScrapingFallback, post, page) ==
  /\ igPc = "idle"
  /\ igFallback' = useScrapingFallback
  /\ igPost' = post
  /\ igPage' = page
  /\ IF useScrapingFallback \/ ~igToken
       THEN igPc' = "scraping" /\ igTrace' = <<"scraping">> /\ igOutcome' = NoIgOutcome
       ELSE igPc' = "api" /\ igTrace' = <<"api">> /\ igOutcome' = NoIgOutcome
  /\ UNCHANGED <<igToken, searchVars, workerVars>>

\* A call of extractRecipeFromInstagramUrl up to its first await: with a
\* token the API extraction is called, without one the page is fetched.
extractRecipeFromInstagramUrl(useScrapingFallback, post, page) ==
  /\ igPc = "idle"
  /\ igFallback' = useScrapingFallback
  /\ igPost' = post
  /\ igPage' = page
  /\ IF igToken
       THEN igPc' = "api" /\ igTrace' = <<"api">> /\ igOutcome' = NoIgOutcome
     ELSE IF useScrapingFallback \/ ~igToken
       THEN igPc' = "scraping" /\ igTrace' = <<"scraping">> /\ igOutcome' = NoIgOutcome
     ELSE /\ igPc' = "done"
          /\ igTrace' = <<>>
          /\ igOutcome' =
               [kind |-> "error",
                message |-> "Instagram URL processing failed: No Instagram API access token available and scraping fallback is disabled"]
  /\ UNCHANGED <<igToken, searchVars, workerVars>>

\* The API extraction returns: the result is handed on with source "api".
instagramAPIResolves ==
  /\ igPc = "api"
  /\ extractRecipeFromInstagramAPI(igPost).text # <<>>
  /\ igOutcome' =
       [kind |-> "ok",
        source |-> "api",
        text |-> extractRecipeFromInstagramAPI(igPost).text,
        confidence |-> extractRecipeFromInstagramAPI(igPost).confidence,
        commentType |-> extractRecipeFromInstagramAPI(igPost).commentType]
  /\ igTrace' = Append(igTrace, "api-ok")
  /\ igPc' = "done"
  /\ UNCHANGED <<igToken, igFallback, igPost, igPage, searchVars, workerVars>>

\* The API extraction throws (no media id in the URL, a failed request, no
\* content in the post): without fallback the call fails, with fallback the
\* page is fetched.
instagramAPIRejects ==
  /\ igPc = "api"
  /\ IF ~igFallback
       THEN /\ igPc' = "done"
            /\ igTrace' = Append(igTrace, "api-failed")
            /\ igOutcome' =
                 [kind |-> "error",
                  message |-> "Instagram URL processing failed: Instagram API failed and scraping fallback is disabled"]
       ELSE /\ igPc' = "scraping"
            /\ igTrace' = igTrace \o <<"api-failed", "scraping">>
            /\ igOutcome' = igOutcome
  /\ UNCHANGED <<igToken, igFallback, igPost, igPage, searchVars, workerVars>>

\* Scraping finds text on the page.
instagramScrapingResolves ==
  /\ igPc = "scraping"
  /\ igPage.found
  /\ igOutcome' =
       [kind |-> "ok",
        source |-> "scraping",
        text |-> <<"page">>,
        confidence |-> ScrapingConfidence,
        commentType |-> igPage.commentType]
  /\ igTrace' = Append(igTrace, "scraping-ok")
  /\ igPc' = "done"
  /\ UNCHANGED <<igToken, igFallback, igPost, igPage, searchVars, workerVars>>

\* Fetching the page fails, or no text is found on it.
instagramScrapingRejects ==
  /\ igPc = "scraping"
  /\ igOutcome' = [kind |-> "error", message |-> "Instagram URL processing failed"]
  /\ igTrace' = Append(igTrace, "scraping-failed")
  /\ igPc' = "done"
  /\ UNCHANGED <<igToken, igFallback, igPost, igPage, searchVars, workerVars>>

\* The caller takes the outcome.
instagramFinish ==
  /\ igPc = "done"
  /\ igPc' = "idle"
  /\ igFallback' = FALSE
  /\ igPost' = NoPost
  /\ igPage' = NoPage
  /\ igTrace' = <<>>
  /\ igOutcome' = NoIgOutcome
  /\ UNCHANGED <<igToken, searchVars, workerVars>>

(***************************************************************************)
(* OCRService: the shared Tesseract worker                                 *)
(***************************************************************************)
\* Concurrent callers of the OCR service, and the calls of createWorker the
\* model follows between two terminations.
MaxCallers == 2

MaxCreated == 3

Callers == 1..MaxCallers

OcrMethods == {"initialize", "extractText", "extractTextFromUrl", "terminate"}

WorkerInit ==
  /\ worker = None
  /\ isInitialized = FALSE
  /\ created = 0
  /\ ocrPc = [ p \in Callers |-> "idle" ]
  /\ ocrOp = [ p \in Callers |-> "none" ]

\* A caller calls a method, which runs up to its first await.  initialize
\* (called directly or from extractText / extractTextFromUrl) calls
\* createWorker unless isInitialized; the extract methods call recognize on
\* an initialized service with a worker; terminate calls worker.terminate()
\* when there is a worker.  A call that returns or throws before any await
\* (initialize when initialized, an extract method that finds no worker,
\* terminate without a worker) changes nothing and is left out.
ocrCall(p, method) ==
  /\ ocrPc[p] = "idle"
  /\ IF method = "terminate"
       THEN /\ worker # None
            /\ ocrPc' = [ocrPc EXCEPT ![p] = "terminate"]
            /\ created' = created
     ELSE IF ~isInitialized
       THEN /\ created < MaxCreated
            /\ created' = created + 1
            /\ ocrPc' = [ocrPc EXCEPT ![p] = "createWorker"]
     ELSE /\ method # "initialize"
          /\ worker # None
          /\ ocrPc' = [ocrPc EXCEPT ![p] = "recognize"]
          /\ created' = created
  /\ ocrOp' = [ocrOp EXCEPT ![p] = method]
  /\ UNCHANGED <<worker, isInitialized, searchVars, instagramVars>>

\* createWorker resolves: the worker is stored and setParameters is called.
createWorkerResolves(p) ==
  /\ ocrPc[p] = "createWorker"
  /\ worker' = Some(p)
  /\ ocrPc' = [ocrPc EXCEPT ![p] = "setParameters"]
  /\ UNCHANGED <<isInitialized, created, ocrOp, searchVars, instagramVars>>

\* createWorker or setParameters rejects: initialize throws.  A call of
\* createWorker that rejected made no worker and is not counted; a worker
\* whose setParameters rejected stays in `worker`, isInitialized false.
initializeRejects(p) ==
  /\ ocrPc[p] \in {"createWorker", "setParameters"}
  /\ created' = IF ocrPc[p] = "createWorker" THEN created - 1 ELSE created
  /\ ocrPc' = [ocrPc EXCEPT ![p] = "idle"]
  /\ ocrOp' = [ocrOp EXCEPT ![p] = "none"]
  /\ UNCHANGED <<worker, isInitialized, searchVars, instagramVars>>

\* setParameters resolves: isInitialized is set and initialize returns; an
\* extract method that awaited it goes on after the await.
setParametersResolves(p) ==
  /\ ocrPc[p] = "setParameters"
  /\ isInitialized' = TRUE
  /\ IF ocrOp[p] = "initialize"
       THEN /\ ocrPc' = [ocrPc EXCEPT ![p] = "idle"]
            /\ ocrOp' = [ocrOp EXCEPT ![p] = "none"]
       ELSE /\ ocrPc' = [ocrPc EXCEPT ![p] = "afterInitialize"]
            /\ ocrOp' = ocrOp
  /\ UNCHANGED <<worker, created, searchVars, instagramVars>>

\* An extract method after `await this.initialize()`: without a worker it
\* throws, with one it calls recognize.
afterInitialize(p) ==
  /\ ocrPc[p] = "afterInitialize"
  /\ IF worker = None
       THEN /\ ocrPc' = [ocrPc EXCEPT ![p] = "idle"]
            /\ ocrOp' = [ocrOp EXCEPT ![p] = "none"]
       ELSE /\ ocrPc' = [ocrPc EXCEPT ![p] = "recognize"]
            /\ ocrOp' = ocrOp
  /\ UNCHANGED <<worker, isInitialized, created, searchVars, instagramVars>>

\* recognize settles and the extract method returns or throws.
recognizeSettles(p) ==
  /\ ocrPc[p] = "recognize"
  /\ ocrPc' = [ocrPc EXCEPT ![p] = "idle"]
  /\ ocrOp' = [ocrOp EXCEPT ![p] = "none"]
  /\ UNCHANGED <<worker, isInitialized, created, searchVars, instagramVars>>

\* worker.terminate() resolves: the worker and the flag are cleared.
terminateResolves(p) ==
  /\ ocrPc[p] = "terminate"
  /\ worker' = None
  /\ isInitialized' = FALSE
  /\ created' = 0
  /\ ocrPc' = [ocrPc EXCEPT ![p] = "idle"]
  /\ ocrOp' = [ocrOp EXCEPT ![p] = "none"]
  /\ UNCHANGED <<searchVars, instagramVars>>

\* worker.terminate() rejects: terminate throws before it clears anything.
terminateRejects(p) ==
  /\ ocrPc[p] = "terminate"
  /\ ocrPc' = [ocrPc EXCEPT ![p] = "idle"]
  /\ ocrOp' = [ocrOp EXCEPT ![p] = "none"]
  /\ UNCHANGED <<worker, isInitialized, created, searchVars, instagramVars>>

(***************************************************************************)
(* searchDatabase                                                          *)
(***************************************************************************)
\* The freshness window of searchDatabase, in days.
FreshDays == 7

\* The row limit of the database query.
DbLimit == 20

\* ilike(column, `%${term}%`): a case-insensitive match of the term somewhere
\* in the value; an underscore in the term matches any one character.
ILike(value, term) ==
  LET v == ToLowerCase(value)
      t == ToLowerCase(term)
  IN  \E i \in 0..(Len(v) - Len(t)) :
        \A k \in 1..Len(t) : t[k] = "_" \/ v[i + k] = t[k]

WhereName(row, name, syns) ==
  ILike(row.name, name) \/ \E i \in DOMAIN syns : ILike(row.name, syns[i])

\* A comparison with NULL is not true.
WhereMinPrice(row, opts) ==
  Truthy(opts.minPrice) => (row.price # None /\ row.price[1] >= opts.minPrice[1])

WhereMaxPrice(row, opts) ==
  Truthy(opts.maxPrice) => (row.price # None /\ row.price[1] <= opts.maxPrice[1])

WhereBrand(row, opts) ==
  Len(opts.preferredBrands) > 0 =>
    (row.brand # None /\ row.brand[1] \in Range(opts.preferredBrands))

WhereFresh(row) == row.ageDays <= FreshDays

\* The condition the built query carries.  The query builder belongs to the
\* drizzle-orm dependency: a later .where() either adds to the condition
\* already set or takes its place, and the date filter is the last one set.
QueryWhere(row, name, syns, opts, chaining) ==
  IF chaining = "replace"
    THEN WhereFresh(row)
    ELSE /\ WhereName(row, name, syns)
         /\ WhereMinPrice(row, opts)
         /\ WhereMaxPrice(row, opts)
         /\ WhereBrand(row, opts)
         /\ WhereFresh(row)

\* The row sequences the query may return: no ORDER BY, at most DbLimit rows.
QueryRows(table, name, syns, opts, chaining) ==
  LET matching == { row \in table : QueryWhere(row, name, syns, opts, chaining) }
  IN  Arrangements(matching, Min(DbLimit, Cardinality(matching)))

\* The mapping of a row to a ProductSearchResult: `x || undefined` turns an
\* empty brand and a price of 0 into undefined.
MapRow(row, name) ==
  [id |-> row.id,
   name |-> row.name,
   brand |-> IF row.brand # None /\ row.brand[1] # <<>> THEN row.brand ELSE None,
   price |-> IF Truthy(row.price) THEN row.price ELSE None,
   store |-> row.store,
   matchScore |-> calculateMatchScore(row.name, name)]

(***************************************************************************)
(* searchOpenFoodFacts                                                     *)
(***************************************************************************)
StringTruthy(opt) == opt # None /\ opt[1] # <<>>

\* A variant of MapRemote that leaves the name of a nameless product empty.
MapRemoteUnnamed(product, name) ==
  [id |-> IF product.code # None THEN product.code[1] ELSE "openfood_synthetic",
   name |-> IF StringTruthy(product.product_name) THEN product.product_name[1]
            ELSE IF StringTruthy(product.generic_name) THEN product.generic_name[1]
            ELSE <<>>,
   brand |-> product.brands,
   price |-> None,
   store |-> OpenFoodFacts,
   matchScore |->
     calculateMatchScore(
       IF StringTruthy(product.product_name) THEN product.product_name[1] ELSE <<>>,
       name)]

\* The mapping of a remote product to a ProductSearchResult.
MapRemote(product, name) ==
  [id |-> IF product.code # None THEN product.code[1] ELSE "openfood_synthetic",
   name |-> IF StringTruthy(product.product_name) THEN product.product_name[1]
            ELSE IF StringTruthy(product.generic_name) THEN product.generic_name[1]
            ELSE name,
   brand |-> product.brands,
   price |-> None,
   store |-> OpenFoodFacts,
   matchScore |->
     calculateMatchScore(
       IF StringTruthy(product.product_name) THEN product.product_name[1] ELSE <<>>,
       name)]

\* The answers of the remote source: up to MaxRemote different products.
RemoteResponses ==
  UNION { Arrangements(RemoteProducts, n) : n \in 0..MaxRemote }

ChainResponses ==
  UNION { Arrangements(ChainProducts, n) : n \in 0..MaxChain }

ScoreResponses == UNION { Arrangements(ScoreProducts, n) : n \in 0..MaxRemote }

(***************************************************************************)
(* searchProducts                                                          *)
(***************************************************************************)
\* What searchProducts returns: the ranked list cut to maxResults || 10.  The
\* return value is the bare list, so it names no degraded source.
DefaultMaxResults == 10

Returned(db, api, name, opts) ==
  [kind |-> "ok",
   results |-> Slice(rankProducts(db \o api, name),
                     IF Truthy(opts.maxResults) THEN opts.maxResults[1]
                     ELSE DefaultMaxResults),
   degradedSources |-> {}]

\* What the catch block of searchProducts throws.
Thrown == [kind |-> "error", results |-> <<>>, degradedSources |-> {}]

\* The tables of the model: up to MaxCatalog rows.
Catalogs == { t \in SUBSET ProductRows : Cardinality(t) <= MaxCatalog }

InitWith(tables) ==
  /\ productsTable \in tables
  /\ whereChaining \in {"and", "replace"}
  /\ dbAvailable = TRUE
  /\ offAvailable = TRUE
  /\ pc = "idle"
  /\ ingredientName = <<>>
  /\ options = NoOptions
  /\ normalizedName = <<>>
  /\ synonyms = <<>>
  /\ dbResults = <<>>
  /\ apiResults = <<>>
  /\ queried = {}
  /\ outcome = NoOutcome
  /\ InstagramInit
  /\ WorkerInit

Init == InitWith(Catalogs)

\* A call of searchProducts up to its first await: the name is normalized,
\* the synonyms are looked up and the database query is sent.
searchProducts(name, opts, dbUp, offUp) ==
  /\ pc = "idle"
  /\ ingredientName' = name
  /\ options' = opts
  /\ dbAvailable' = dbUp
  /\ offAvailable' = offUp
  /\ normalizedName' = normalizeIngredientName(name)
  /\ synonyms' = getIngredientSynonyms(name)
  /\ dbResults' = <<>>
  /\ apiResults' = <<>>
  /\ queried' = {"database"}
  /\ outcome' = NoOutcome
  /\ pc' = "searchDatabase"
  /\ UNCHANGED <<productsTable, whereChaining>>
  /\ UNCHANGED ocrVars

\* A variant of searchDatabaseResolves that hands the database candidates to
\* the caller at once, while the request to Open Food Facts is in flight.
searchDatabaseResolvesReturningEarly ==
  /\ pc = "searchDatabase"
  /\ dbAvailable
  /\ \E rows \in QueryRows(productsTable, normalizedName, synonyms, options, whereChaining) :
       LET db == [ i \in DOMAIN rows |-> MapRow(rows[i], normalizedName) ]
       IN  /\ dbResults' = db
           /\ outcome' = Returned(db, <<>>, normalizedName, options)
  /\ queried' = queried \cup {"openfoodfacts"}
  /\ pc' = "searchExternalAPIs"
  /\ UNCHANGED <<productsTable, whereChaining, dbAvailable, offAvailable, ingredientName,
                 options, normalizedName, synonyms, apiResults>>
  /\ UNCHANGED ocrVars

\* The database query resolves; searchExternalAPIs then sends the request to
\* Open Food Facts.
searchDatabaseResolves ==
  /\ pc = "searchDatabase"
  /\ dbAvailable
  /\ \E rows \in QueryRows(productsTable, normalizedName, synonyms, options, whereChaining) :
       dbResults' = [ i \in DOMAIN rows |-> MapRow(rows[i], normalizedName) ]
  /\ queried' = queried \cup {"openfoodfacts"}
  /\ pc' = "searchExternalAPIs"
  /\ UNCHANGED <<productsTable, whereChaining, dbAvailable, offAvailable, ingredientName,
                 options, normalizedName, synonyms, apiResults, outcome>>
  /\ UNCHANGED ocrVars

\* A variant of searchDatabaseRejects that absorbs the rejection the way
\* searchOpenFoodFacts absorbs its own: no rows, and the search goes on.
searchDatabaseRejectsAbsorbed ==
  /\ pc = "searchDatabase"
  /\ ~dbAvailable
  /\ dbResults' = <<>>
  /\ queried' = queried \cup {"openfoodfacts"}
  /\ pc' = "searchExternalAPIs"
  /\ UNCHANGED <<productsTable, whereChaining, dbAvailable, offAvailable, ingredientName,
                 options, normalizedName, synonyms, apiResults, outcome>>
  /\ UNCHANGED ocrVars

\* The database query rejects: the catch block of searchProducts rethrows.
searchDatabaseRejects ==
  /\ pc = "searchDatabase"
  /\ ~dbAvailable
  /\ outcome' = Thrown
  /\ pc' = "done"
  /\ UNCHANGED <<productsTable, whereChaining, dbAvailable, offAvailable, ingredientName,
                 options, normalizedName, synonyms, dbResults, apiResults, queried>>
  /\ UNCHANGED ocrVars

\* Open Food Facts answers; the results are combined, ranked and returned.
searchOpenFoodFactsResolves(response) ==
  /\ pc = "searchExternalAPIs"
  /\ offAvailable
  /\ LET api == [ i \in DOMAIN response |-> MapRemote(response[i], normalizedName) ]
     IN  /\ apiResults' = api
         /\ outcome' = Returned(dbResults, api, normalizedName, options)
  /\ pc' = "done"
  /\ UNCHANGED <<productsTable, whereChaining, dbAvailable, offAvailable, ingredientName,
                 options, normalizedName, synonyms, dbResults, queried>>
  /\ UNCHANGED ocrVars

\* The request to Open Food Facts fails or times out: searchOpenFoodFacts
\* catches the error and returns no product.
searchOpenFoodFactsRejects ==
  /\ pc = "searchExternalAPIs"
  /\ ~offAvailable
  /\ apiResults' = <<>>
  /\ outcome' = Returned(dbResults, <<>>, normalizedName, options)
  /\ pc' = "done"
  /\ UNCHANGED <<productsTable, whereChaining, dbAvailable, offAvailable, ingredientName,
                 options, normalizedName, synonyms, dbResults, queried>>
  /\ UNCHANGED ocrVars

\* A variant of Finish for a service that keeps the candidates of its last
\* search.
FinishKeepingCandidates ==
  /\ pc = "done"
  /\ pc' = "idle"
  /\ ingredientName' = <<>>
  /\ options' = NoOptions
  /\ dbAvailable' = TRUE
  /\ offAvailable' = TRUE
  /\ normalizedName' = <<>>
  /\ synonyms' = <<>>
  /\ queried' = {}
  /\ outcome' = NoOutcome
  /\ UNCHANGED <<productsTable, whereChaining, dbResults, apiResults>>
  /\ UNCHANGED ocrVars

\* The caller takes the outcome; nothing of the call is kept.
Finish ==
  /\ pc = "done"
  /\ pc' = "idle"
  /\ ingredientName' = <<>>
  /\ options' = NoOptions
  /\ dbAvailable' = TRUE
  /\ offAvailable' = TRUE
  /\ normalizedName' = <<>>
  /\ synonyms' = <<>>
  /\ dbResults' = <<>>
  /\ apiResults' = <<>>
  /\ queried' = {}
  /\ outcome' = NoOutcome
  /\ UNCHANGED <<productsTable, whereChaining>>
  /\ UNCHANGED ocrVars

Next ==
  \/ \E name \in IngredientNames, opts \in SearchOptions, dbUp \in BOOLEAN, offUp \in BOOLEAN :
       searchProducts(name, opts, dbUp, offUp)
  \/ searchDatabaseResolves
  \/ searchDatabaseRejects
  \/ \E response \in RemoteResponses : searchOpenFoodFactsResolves(response)
  \/ searchOpenFoodFactsRejects
  \/ Finish

Spec == Init /\ [][Next]_vars

\* The same program on long remote answers: searches for the seven-word
\* name, the remote source answering with up to MaxChain products.
InitChain == InitWith({ t \in Catalogs : Cardinality(t) <= 1 })

NextChain ==
  \/ \E dbUp \in BOOLEAN, offUp \in BOOLEAN :
       searchProducts(SevenWords, NoOptions, dbUp, offUp)
  \/ searchDatabaseResolves
  \/ searchDatabaseRejects
  \/ \E response \in ChainResponses : searchOpenFoodFactsResolves(response)
  \/ searchOpenFoodFactsRejects
  \/ Finish

SpecChain == InitChain /\ [][NextChain]_vars

\* The steps by which a source call settles, told by the position of
\* searchProducts alone: the database answers; the request to Open Food Facts
\* is answered or fails.
DatabaseAnswers == pc = "searchDatabase" /\ dbAvailable /\ pc' = "searchExternalAPIs"

OpenFoodFactsSettles == pc = "searchExternalAPIs" /\ pc' = "done"

\* What the code and its environment guarantee to happen: a database that
\* answers does answer; the request to Open Food Facts settles, by an answer
\* or, at the latest after the 5000 ms of its axios timeout, by an error; the
\* caller takes the outcome.  Nothing bounds the wait for a database that
\* does not answer: the query carries no timeout, so its rejection is not
\* guaranteed to happen.
Fairness ==
  /\ WF_pc(DatabaseAnswers)
  /\ WF_pc(OpenFoodFactsSettles)
  /\ WF_vars(Finish)

SpecLive == InitChain /\ [][NextChain]_vars /\ Fairness

\* The OCR service on Instagram posts.
NextInstagram ==
  \/ \E useScrapingFallback \in BOOLEAN, post \in IgPosts, page \in IgPages :
       extractRecipeFromInstagramUrl(useScrapingFallback, post, page)
  \/ instagramAPIResolves
  \/ instagramAPIRejects
  \/ instagramScrapingResolves
  \/ instagramScrapingRejects
  \/ instagramFinish

SpecInstagram == InitWith({{}}) /\ [][NextInstagram]_vars

\* The OCR service under concurrent callers.
NextWorker ==
  \E p \in Callers :
    \/ \E method \in OcrMethods : ocrCall(p, method)
    \/ createWorkerResolves(p)
    \/ initializeRejects(p)
    \/ setParametersResolves(p)
    \/ afterInitialize(p)
    \/ recognizeSettles(p)
    \/ terminateResolves(p)
    \/ terminateRejects(p)

SpecWorker == InitWith({{}}) /\ [][NextWorker]_vars

\* The same program on many names: searches of an empty catalog, no remote
\* product, the name drawn from NameInputs.
InitNames == InitWith({{}})

NextNames ==
  \/ \E name \in NameInputs, dbUp \in BOOLEAN, offUp \in BOOLEAN :
       searchProducts(name, NoOptions, dbUp, offUp)
  \/ searchDatabaseResolves
  \/ searchDatabaseRejects
  \/ searchOpenFoodFactsResolves(<<>>)
  \/ searchOpenFoodFactsRejects
  \/ Finish

SpecNames == InitNames /\ [][NextNames]_vars

\* The same program on the names and products of the score examples.
NextScore ==
  \/ \E name \in ScoreNames, dbUp \in BOOLEAN, offUp \in BOOLEAN :
       searchProducts(name, NoOptions, dbUp, offUp)
  \/ searchDatabaseResolves
  \/ searchDatabaseRejects
  \/ \E response \in ScoreResponses : searchOpenFoodFactsResolves(response)
  \/ searchOpenFoodFactsRejects
  \/ Finish

SpecScore == InitNames /\ [][NextScore]_vars

(***************************************************************************)
(* Properties                                                              *)
(***************************************************************************)
\* The search returned a list, for a name that does not normalize to the
\* empty string.
Returns == pc = "done" /\ outcome.kind = "ok" /\ normalizedName # <<>>

Throws == pc = "done" /\ outcome.kind = "error"

ResultIds == { outcome.results[i].id : i \in DOMAIN outcome.results }

\* The candidates of the database results that pass the score threshold.
Qualifying(candidates, name) ==
  { candidates[i].id : i \in { k \in DOMAIN candidates :
      calculateMatchScore(candidates[k].name, name) > ScoreTenth } }

\* C1: for a name that does not normalize to the empty string, when exactly
\* one of the two sources fails the search still returns normally, returns
\* the qualifying candidates of the source that answered, and names the
\* failing source in degradedSources; whichever source failed.
C1_OneSourceFailureIsAbsorbed ==
  /\ (pc = "done" /\ normalizedName # <<>> /\ ~dbAvailable /\ offAvailable) =>
       (outcome.kind = "ok" /\ "database" \in outcome.degradedSources)
  /\ ( /\ pc = "done" /\ normalizedName # <<>>
       /\ dbAvailable /\ ~offAvailable /\ dbResults # <<>> ) =>
       /\ outcome.kind = "ok"
       /\ "openfoodfacts" \in outcome.degradedSources
       /\ ~Truthy(options.maxResults) => ResultIds = Qualifying(dbResults, normalizedName)

\* C2: when the database and Open Food Facts both fail, the search throws; it
\* never returns a (then empty) list.
C2_TotalFailureThrows ==
  (pc = "done" /\ ~dbAvailable /\ ~offAvailable) => outcome.kind = "error"

C2_Witness ==
  pc = "done" /\ ~dbAvailable /\ ~offAvailable /\ outcome.kind = "error"
    /\ normalizedName # <<>> /\ productsTable # {}

\* C3: for a name that does not normalize to the empty string, the search
\* throws only when both sources failed.
C3_ThrowsOnlyOnTotalFailure ==
  (Throws /\ normalizedName # <<>>) => (~dbAvailable /\ ~offAvailable)

\* C4: a name that normalizes to the empty string is rejected with an error
\* before a request is sent to any source, and yields no candidates.
C4_EmptyNameIsRejected ==
  (pc # "idle" /\ normalizedName = <<>>) =>
    /\ queried = {}
    /\ pc = "done" => (outcome.kind = "error" /\ outcome.results = <<>>)

\* C5: with the name "Eggplant" and a catalog holding only the fresh product
\* "Fresh Aubergine" priced 2.50, the product is retrieved through the
\* synonym "aubergine", is scored 1.0 and is first in the results.
C5_SynonymMatchIsReturned ==
  ( /\ Returns
    /\ normalizedName = eggplant
    /\ options = NoOptions
    /\ \E row \in productsTable :
         productsTable = {row} /\ row.name = FreshAubergine /\ row.price = Some(250)
    /\ apiResults = <<>> ) =>
      /\ Len(dbResults) = 1
      /\ Len(outcome.results) >= 1
      /\ outcome.results[1].name = FreshAubergine
      /\ outcome.results[1].matchScore = ScoreOne

\* C6: every returned candidate with a known price lies within the given
\* price bounds, bounds included, whichever source it came from.
C6_PriceWithinBounds ==
  Returns =>
    \A i \in DOMAIN outcome.results :
      outcome.results[i].price # None =>
        /\ options.minPrice # None => outcome.results[i].price[1] >= options.minPrice[1]
        /\ options.maxPrice # None => outcome.results[i].price[1] <= options.maxPrice[1]

\* Equality of brands up to letter case.
BrandPreferred(brand, opts) ==
  brand # None /\
    \E k \in DOMAIN opts.preferredBrands :
      ToLowerCase(brand[1]) = ToLowerCase(opts.preferredBrands[k])

\* C7: with preferred brands given, every returned candidate has a brand that
\* equals a preferred brand up to letter case, and a fresh, matching catalog
\* product whose brand equals a preferred brand up to letter case is returned.
C7_OnlyPreferredBrands ==
  (Returns /\ Len(options.preferredBrands) > 0) =>
    /\ \A i \in DOMAIN outcome.results : BrandPreferred(outcome.results[i].brand, options)
    /\ \A row \in productsTable :
         ( /\ BrandPreferred(row.brand, options)
           /\ WhereName(row, normalizedName, synonyms)
           /\ WhereFresh(row)
           /\ calculateMatchScore(row.name, normalizedName) > ScoreTenth ) =>
             row.id \in ResultIds

\* C8: in a returned list no candidate is preceded by one whose score is
\* lower by more than 0.1.
C8_ScoresDescendUpToBand ==
  Returns =>
    \A i, j \in DOMAIN outcome.results :
      i < j => outcome.results[j].matchScore - outcome.results[i].matchScore <= ScoreTenth

\* The price the catalog holds for a returned candidate (0 included).
KnownPrice(result) ==
  IF \E row \in productsTable : row.id = result.id
    THEN (CHOOSE row \in productsTable : row.id = result.id).price
    ELSE result.price

ScoresTied(a, b) == Abs(a.matchScore - b.matchScore) <= ScoreTenth

\* C9: of two returned candidates with tied scores and known prices (0
\* included), the cheaper one comes first.
C9_CheaperFirstWithinBand ==
  Returns =>
    \A i, j \in DOMAIN outcome.results :
      ( /\ ScoresTied(outcome.results[i], outcome.results[j])
        /\ KnownPrice(outcome.results[i]) # None
        /\ KnownPrice(outcome.results[j]) # None
        /\ KnownPrice(outcome.results[i])[1] < KnownPrice(outcome.results[j])[1] ) => i < j

\* C10: of two returned candidates with tied scores that price does not
\* separate (a price unknown, or both prices equal), the one with the
\* smaller store name comes first.
C10_StoreNameBreaksTies ==
  Returns =>
    \A i, j \in DOMAIN outcome.results :
      ( /\ ScoresTied(outcome.results[i], outcome.results[j])
        /\ \/ outcome.results[i].price = None
           \/ outcome.results[j].price = None
           \/ outcome.results[i].price = outcome.results[j].price
        /\ localeCompare(outcome.results[i].store, outcome.results[j].store) < 0 ) => i < j

\* The sequences that hold the elements of s in another order (s included).
Reorderings(s) ==
  { [ i \in DOMAIN s |-> s[p[i]] ] : p \in Arrangements(DOMAIN s, Len(s)) }

\* C11: the ranked order does not depend on the order in which the
\* candidates were merged: ranking any permutation of the candidates of the
\* two sources gives the list that ranking them as merged gives.
C11_RankingIgnoresMergeOrder ==
  Returns =>
    \A merged \in Reorderings(dbResults \o apiResults) :
      rankProducts(merged, normalizedName)
        = rankProducts(dbResults \o apiResults, normalizedName)

\* C12: every candidate of a returned list has a match score strictly above
\* the inclusion threshold 0.1, whatever the name and the sources' answers.
C12_ReturnedScoresAboveThreshold ==
  (pc = "done" /\ outcome.kind = "ok") =>
    \A i \in DOMAIN outcome.results : outcome.results[i].matchScore > ScoreTenth

\* A returned list next to a retrieved candidate that scores 0.1 or less.
C12_Witness ==
  /\ pc = "done" /\ outcome.kind = "ok"
  /\ Len(outcome.results) >= 1
  /\ \E i \in DOMAIN dbResults :
       calculateMatchScore(dbResults[i].name, normalizedName) <= ScoreTenth

Max(a, b) == IF a > b THEN a ELSE b

\* The maxResults of the call as given, 10 when the caller gives none.
RequestedMaxResults ==
  IF options.maxResults # None THEN options.maxResults[1] ELSE DefaultMaxResults

\* The merged candidates that score above the threshold, in merge order.
AboveThreshold ==
  SelectSeq(dbResults \o apiResults,
            LAMBDA c : calculateMatchScore(c.name, normalizedName) > ScoreTenth)

\* C13: whatever maxResults the caller passes (none, 0, negative, positive),
\* a returned list has at most max(1, min(maxResults, candidates above the
\* threshold)) elements.
C13_LengthWithinMaxResults ==
  Returns =>
    Len(outcome.results) <= Max(1, Min(RequestedMaxResults, Len(AboveThreshold)))

\* C14: a returned list is the best-ranked prefix of the filtered and sorted
\* candidates: its first min(maxResults, n) elements, where n is the length
\* of the sorted list and maxResults is 10 when the caller gives none.
C14_ResultsAreSortedPrefix ==
  Returns =>
    LET sorted == rankProducts(dbResults \o apiResults, normalizedName)
    IN  outcome.results = SubSeq(sorted, 1, Min(RequestedMaxResults, Len(sorted)))

\* C15: normalizing is idempotent: normalizing the normalized name of a call
\* gives the normalized name again, for every name.
C15_NormalizeIsIdempotent ==
  pc # "idle" => normalizeIngredientName(normalizedName) = normalizedName

Letters == Range(LowerCase) \cup Range(UpperCase)

\* C16: the normalized name of every name is lowercase, neither starts nor
\* ends with a space, has no two spaces in a row and holds only letters,
\* digits and spaces; "  Bell   Pepper! " becomes "bell pepper".
C16_NormalizedNameIsCanonical ==
  pc # "idle" =>
    /\ \A i \in DOMAIN normalizedName :
         /\ normalizedName[i] = LowerChar(normalizedName[i])
         /\ normalizedName[i] \in Letters \cup Digits \cup {" "}
         /\ i > 1 => ~(normalizedName[i] = " " /\ normalizedName[i - 1] = " ")
    /\ normalizedName # <<>> =>
         (normalizedName[1] # " " /\ normalizedName[Len(normalizedName)] # " ")
    /\ ingredientName = BellPepperInput => normalizedName = bellPepper

\* C17: the synonym lookup is symmetric: every synonym found for the name of
\* a call has that name among its own synonyms.
C17_SynonymsAreSymmetric ==
  pc # "idle" =>
    \A i \in DOMAIN synonyms :
      normalizedName \in Range(getIngredientSynonyms(synonyms[i]))

\* The whitespace-delimited words of a name.
Words(s) == SelectSeq(Split(CollapseSpaces(s)), LAMBDA w : w # <<>>)

\* The scoring rule as stated: the first that applies of exact match,
\* substring match and word overlap, else 0.
RuleScore(candidateName, canonical) ==
  LET candidate == normalizeIngredientName(candidateName)
      matched == SelectSeq(Words(canonical),
                   LAMBDA w : \E k \in DOMAIN Words(candidate) :
                                Includes(Words(candidate)[k], w))
  IN  IF candidate = canonical THEN ScoreOne
      ELSE IF Includes(candidate, canonical) THEN ScoreContains
      ELSE IF Len(matched) > 0 THEN (ScoreWords * Len(matched)) \div Len(Words(canonical))
      ELSE 0

\* C18: the score attached to every product of the remote source is the one
\* the scoring rule gives for the product's name and the normalized name of
\* the call, and lies between 0 and 1.
C18_ScoreFollowsRule ==
  pc = "done" =>
    \A i \in DOMAIN apiResults :
      /\ apiResults[i].matchScore = RuleScore(apiResults[i].name, normalizedName)
      /\ apiResults[i].matchScore >= 0
      /\ apiResults[i].matchScore <= ScoreOne

C20_SourcesQueriedConcurrently ==
  (pc = "searchDatabase" /\ normalizedName # <<>>) => queried = {"database", "openfoodfacts"}

\* The sources whose call has been started and has not settled.
InFlight ==
  IF pc = "searchDatabase" THEN {"database"}
  ELSE IF pc = "searchExternalAPIs" THEN {"openfoodfacts"}
  ELSE {}

\* C22: a search produces its result only when no source call it started is
\* still in flight, and the candidates of both sources are then part of what
\* was ranked: with no maxResults given, every candidate above the threshold,
\* from the database or from Open Food Facts, is in the returned list.
C22_ResultOnlyAfterAllSettled ==
  outcome.kind # "none" =>
    /\ InFlight = {}
    /\ (outcome.kind = "ok" /\ options.maxResults = None) =>
         { AboveThreshold[i].id : i \in DOMAIN AboveThreshold } = ResultIds

\* A search returned candidates of both sources, Open Food Facts having
\* answered after the database.
C22_Witness ==
  /\ pc = "done" /\ outcome.kind = "ok" /\ normalizedName # <<>>
  /\ queried = {"database", "openfoodfacts"}
  /\ dbResults # <<>> /\ apiResults # <<>>
  /\ \E i \in DOMAIN dbResults : dbResults[i].id \in ResultIds
  /\ \E i \in DOMAIN apiResults : apiResults[i].id \in ResultIds

\* The stored row a database candidate was mapped from.
RowOf(candidate) == CHOOSE row \in productsTable : row.id = candidate.id

\* The stored name holds the term, letter case aside.
NameHolds(stored, term) == Includes(ToLowerCase(stored), ToLowerCase(term))

\* C26: every candidate the database search emits satisfies all conditions
\* of the query at once: its stored name holds the normalized name or a
\* synonym, its price is within the price bounds that were given, and its
\* brand is one of the preferred brands when some were given.
C26_DatabaseCandidatesMeetAllConditions ==
  (pc \in {"searchExternalAPIs", "done"} /\ dbAvailable /\ normalizedName # <<>>) =>
    \A i \in DOMAIN dbResults :
      LET row == RowOf(dbResults[i])
      IN  /\ \/ NameHolds(row.name, normalizedName)
             \/ \E k \in DOMAIN synonyms : NameHolds(row.name, synonyms[k])
          /\ options.minPrice # None =>
               (row.price # None /\ row.price[1] >= options.minPrice[1])
          /\ options.maxPrice # None =>
               (row.price # None /\ row.price[1] <= options.maxPrice[1])
          /\ Len(options.preferredBrands) > 0 =>
               (row.brand # None /\ row.brand[1] \in Range(options.preferredBrands))

\* The age in days of the record a returned candidate was mapped from: a row
\* of the products table or a product of the remote source.
AgeOf(result) ==
  IF \E row \in productsTable : row.id = result.id
    THEN RowOf(result).ageDays
  ELSE IF \E product \in RemoteProducts : product.code = Some(result.id)
    THEN (CHOOSE product \in RemoteProducts : product.code = Some(result.id)).ageDays
  ELSE 0

\* C27: no returned candidate, from either source, is older than the
\* freshness window of 7 days; and a catalog product of exactly 7 days that
\* matches the name is returned when no option is given.
C27_NoStaleCandidate ==
  Returns =>
    /\ \A i \in DOMAIN outcome.results : AgeOf(outcome.results[i]) <= FreshDays
    /\ options = NoOptions =>
         \A row \in productsTable :
           ( /\ row.ageDays = FreshDays
             /\ WhereName(row, normalizedName, synonyms)
             /\ calculateMatchScore(row.name, normalizedName) > ScoreTenth ) =>
               row.id \in ResultIds

\* The candidates with the scores that the sources attached wiped out.
Unscored(candidates) ==
  [ i \in DOMAIN candidates |-> [ candidates[i] EXCEPT !.matchScore = 0 ] ]

\* C28: the score of every returned candidate is the scorer's value for the
\* candidate's name and the normalized name of the call, and the returned
\* list is what ranking gives when the scores attached by the sources are
\* wiped out: an attached score influences neither filtering nor order.
C28_ScoresAreRecomputed ==
  (pc = "done" /\ outcome.kind = "ok") =>
    /\ \A i \in DOMAIN outcome.results :
         outcome.results[i].matchScore
           = calculateMatchScore(outcome.results[i].name, normalizedName)
    /\ outcome.results =
         Slice(rankProducts(Unscored(dbResults \o apiResults), normalizedName),
               IF Truthy(options.maxResults) THEN options.maxResults[1]
               ELSE DefaultMaxResults)

\* A returned candidate whose score differs from the one its source attached.
C28_Witness ==
  /\ pc = "done" /\ outcome.kind = "ok" /\ normalizedName # <<>>
  /\ \E i \in DOMAIN outcome.results, j \in DOMAIN apiResults :
       /\ outcome.results[i].id = apiResults[j].id
       /\ outcome.results[i].matchScore # apiResults[j].matchScore

\* The candidates mapped from a remote product that has neither code nor
\* name: the only product of RemoteProducts without a code.
FromNamelessProduct(candidate) == candidate.id = "openfood_synthetic"

C21_SearchCompletes == (pc = "searchDatabase") ~> (pc = "done")

\* The steps of the call in progress that were taken before step i.
Before(i) == { igTrace[j] : j \in 1..(i - 1) }

\* C23: with a token the API is tried before any scraping; the result has
\* source "api" and confidence 0.9 exactly when the API extraction succeeded,
\* and source "scraping" with confidence 0.8 only after the API failed with
\* the fallback enabled, or without a token.
C23_ApiFirst ==
  /\ igToken =>
       \A i \in DOMAIN igTrace : igTrace[i] = "scraping" => "api" \in Before(i)
  /\ (igPc = "done" /\ igOutcome.kind = "ok") =>
       /\ igOutcome.source = "api" <=> "api-ok" \in Range(igTrace)
       /\ igOutcome.source = "api" => igOutcome.confidence = ApiConfidence
       /\ igOutcome.source = "scraping" =>
            /\ igOutcome.confidence = ScrapingConfidence
            /\ \/ ~igToken
               \/ igFallback /\ igTrace = <<"api", "api-failed", "scraping", "scraping-ok">>
  /\ (igPc = "done" /\ "api-ok" \in Range(igTrace)) =>
       igOutcome.kind = "ok" /\ igOutcome.source = "api"

\* With a token, a result of scraping after the API failed.
C23_Witness ==
  /\ igPc = "done" /\ igToken /\ igFallback
  /\ igOutcome.kind = "ok" /\ igOutcome.source = "scraping"
  /\ igTrace = <<"api", "api-failed", "scraping", "scraping-ok">>

\* C24: when useScrapingFallback is false no scraping request is issued and
\* the call fails with an error, with a token and without one.
C24_NoScrapingWithoutFallback ==
  (igPc # "idle" /\ ~igFallback) =>
    /\ "scraping" \notin Range(igTrace)
    /\ igPc = "done" =>
         \/ igOutcome.kind = "error"
         \/ igOutcome.kind = "ok" /\ igOutcome.source = "api"

\* C25: the API extraction reports commentType "caption" whenever the answer
\* carries a caption, also when a recipe comment was appended to the text.
C25_CaptionTypeWithCaption ==
  (igPc = "done" /\ igOutcome.kind = "ok" /\ igOutcome.source = "api"
     /\ igPost.caption # None /\ igPost.caption[1].len > 0) =>
    igOutcome.commentType = "caption"

\* C30: under every interleaving of the callers createWorker is invoked at
\* most once between terminations, and isInitialized implies a worker.
C30_SingleSharedWorker ==
  /\ created <= 1
  /\ isInitialized => worker # None

====
